---------------------------- MODULE Spec2Model ----------------------------
(***************************************************************************)
(* Model of the Inteliquent Checkmk plugin bundle:                         *)
(*   agent_based/inteliquent_trunk_groups.py  parse / discover / check     *)
(*   server_side_calls/inteliquent_api.py     _commands_from_params        *)
(*   libexec/agent_inteliquent_api.py         main (the --account option)  *)
(*                                                                         *)
(* Python str values are sequences of code points; JSON values are a       *)
(* tagged union with one uniform record shape.                             *)
(***************************************************************************)
EXTENDS Integers, Sequences, FiniteSets, TLC

VARIABLES pc, string_table, section, parse_raised, services,
          item, results, check_raised, params, args, accounts

vars == <<pc, string_table, section, parse_raised, services,
          item, results, check_raised, params, args, accounts>>

(***************************************************************************)
(* Bounds of the model.                                                    *)
(***************************************************************************)
MaxTrunks == 2      \* trunk entries in one payload, over all companies
MaxAccounts == 2    \* account entries in one rule configuration

(***************************************************************************)
(* JSON values.  k is the Python type of the decoded value, n its number   *)
(* (num, bool) or its length (list, dict), s its text (str).               *)
(***************************************************************************)
Absent == [k |-> "absent", n |-> 0, s |-> <<>>]    \* key not in the mapping
Null == [k |-> "null", n |-> 0, s |-> <<>>]
Num(i) == [k |-> "num", n |-> i, s |-> <<>>]
Bool(b) == [k |-> "bool", n |-> IF b THEN 1 ELSE 0, s |-> <<>>]
Str(t) == [k |-> "str", n |-> 0, s |-> t]
List(len) == [k |-> "list", n |-> len, s |-> <<>>]

\* dict.get(key): a missing key and a JSON null both read as None
IsNone(v) == v.k \in {"absent", "null"}

\* isinstance(v, str)
IsStr(v) == v.k = "str"

\* isinstance(v, (int, float)); bool is a subclass of int
IsNumber(v) == v.k \in {"num", "bool"}

\* Python truth value of a decoded JSON value
Truthy(v) ==
    CASE v.k \in {"absent", "null"} -> FALSE
      [] v.k \in {"num", "bool"} -> v.n # 0
      [] v.k = "str" -> Len(v.s) > 0
      [] OTHER -> v.n > 0

(***************************************************************************)
(* str helpers                                                             *)
(***************************************************************************)
\* str.isspace() of one code point (the ASCII white space)
IsSpace(c) == c \in {9, 10, 11, 12, 13, 32}

\* str.lower() of one code point (ASCII)
LowerChar(c) == IF c >= 65 /\ c <= 90 THEN c + 32 ELSE c

\* not name.strip(): the text is empty or all white space
IsBlank(t) == \A i \in 1..Len(t) : IsSpace(t[i])

RECURSIVE DropSpaces(_)
DropSpaces(t) ==
    IF t = <<>> THEN <<>>
    ELSE IF IsSpace(Head(t)) THEN DropSpaces(Tail(t))
         ELSE <<Head(t)>> \o DropSpaces(Tail(t))

\* "".join(text.lower().split())
NormalizeStatus(t) == DropSpaces([i \in 1..Len(t) |-> LowerChar(t[i])])

\* the literal "inservice"
InService == <<105, 110, 115, 101, 114, 118, 105, 99, 101>>

\* str < str: lexicographic by code point
RECURSIVE LexLess(_, _)
LexLess(a, b) ==
    IF b = <<>> THEN FALSE
    ELSE IF a = <<>> THEN TRUE
    ELSE IF Head(a) # Head(b) THEN Head(a) < Head(b)
    ELSE LexLess(Tail(a), Tail(b))

RECURSIVE InsertSorted(_, _)
InsertSorted(x, sq) ==
    IF sq = <<>> THEN <<x>>
    ELSE IF LexLess(x, Head(sq)) THEN <<x>> \o sq
    ELSE <<Head(sq)>> \o InsertSorted(x, Tail(sq))

\* sorted(names)
RECURSIVE Sorted(_)
Sorted(sq) == IF sq = <<>> THEN <<>> ELSE InsertSorted(Head(sq), Sorted(Tail(sq)))

(***************************************************************************)
(* Trunk records.  A mapping value is a record of its fields; fields of    *)
(* the payload the check never reads as data (accessType, e911Enabled)     *)
(* are left out.                                                           *)
(***************************************************************************)
\* the "utilization" value: a mapping of three fields, or some other value
UtilDict(i, o, c) ==
    [k |-> "dict", n |-> 3, s |-> <<>>, inCalls |-> i, outCalls |-> o, capacity |-> c]

UtilOther(v) ==
    [k |-> v.k, n |-> v.n, s |-> v.s, inCalls |-> Absent, outCalls |-> Absent,
     capacity |-> Absent]

\* {} as the utilization value
UtilEmptyDict ==
    [k |-> "dict", n |-> 0, s |-> <<>>, inCalls |-> Absent, outCalls |-> Absent,
     capacity |-> Absent]

Fields(name, company, status, util, active) ==
    [customerTrunkGroupName |-> name, company |-> company, status |-> status,
     utilization |-> util, activeSessionCount |-> active]

NoFields == Fields(Absent, Absent, Absent, UtilOther(Absent), Absent)

\* a second-level value of the payload: a mapping (kind "dict") or not
TrunkDict(f) == [kind |-> "dict", len |-> 1, f |-> f]
TrunkOther(kind, len) == [kind |-> kind, len |-> len, f |-> NoFields]


(***************************************************************************)
(* Python dict keyed by str, in insertion order: a sequence of             *)
(* [key, val] entries with distinct keys.                                  *)
(***************************************************************************)
DictKeys(d) == [i \in 1..Len(d) |-> d[i].key]

DictHas(d, key) == \E i \in 1..Len(d) : d[i].key = key

\* d[key], for a key of d
DictGet(d, key) == d[CHOOSE i \in 1..Len(d) : d[i].key = key].val

\* mutant of DictSet: the first record stored under a key is kept
DictSet_KeepFirst(d, key, val) ==
    IF DictHas(d, key) THEN d ELSE Append(d, [key |-> key, val |-> val])

\* d[key] = val: an existing key keeps its place, a new key goes last
DictSet(d, key, val) ==
    IF DictHas(d, key)
    THEN [i \in 1..Len(d) |-> IF d[i].key = key THEN [key |-> key, val |-> val] ELSE d[i]]
    ELSE Append(d, [key |-> key, val |-> val])

(***************************************************************************)
(* parse_inteliquent_trunk_groups                                          *)
(***************************************************************************)
\* dict(trunk_data) raises TypeError / ValueError unless trunk_data is a
\* mapping or an empty iterable (a list of key/value pairs is not sampled)
DictCtorRaises(td) == ~(td.kind = "dict" \/ (td.kind \in {"list", "str"} /\ td.len = 0))

\* mutant of TrunkOf: a company field the record already has is kept
TrunkOf_KeepCompany(td, company) ==
    IF td.f.company.k = "absent" THEN [td.f EXCEPT !.company = Str(company)] ELSE td.f

\* the copy dict(trunk_data) makes, with trunk["company"] = company
TrunkOf(td, company) == [td.f EXCEPT !.company = Str(company)]

\* if not isinstance(name, str) or not name.strip(): continue
NameDropped(name) == ~IsStr(name) \/ IsBlank(name.s)

\* the body of "for trunk_id, trunk_data in trunks.items()" from entry i on
RECURSIVE ParseTrunks(_, _, _, _)
ParseTrunks(trunks, i, company, acc) ==
    IF i > Len(trunks) \/ acc.raised THEN acc
    ELSE IF DictCtorRaises(trunks[i]) THEN [acc EXCEPT !.raised = TRUE]
    ELSE LET trunk == TrunkOf(trunks[i], company)
             name == trunk.customerTrunkGroupName
         IN IF NameDropped(name)
            THEN ParseTrunks(trunks, i + 1, company, acc)
            ELSE ParseTrunks(trunks, i + 1, company,
                             [acc EXCEPT !.by_name = DictSet(acc.by_name, name.s, trunk)])

\* the body of "for company, trunks in payload.items()" from entry i on
RECURSIVE ParseCompanies(_, _, _)
ParseCompanies(companies, i, acc) ==
    IF i > Len(companies) \/ acc.raised THEN acc
    ELSE IF ~companies[i].isdict THEN ParseCompanies(companies, i + 1, acc)
    ELSE ParseCompanies(companies, i + 1,
                        ParseTrunks(companies[i].trunks, 1, companies[i].key, acc))

\* json.loads(raw) raises: the joined text is empty or is not JSON
JsonLoadsRaises(doc) == doc.kind \in {"empty", "notjson"}

\* payload.items() raises AttributeError: the document is no mapping
ItemsRaises(doc) == doc.kind # "dict"

ParseTrunkGroups(st) ==
    IF st.rows = 0 THEN [raised |-> FALSE, by_name |-> <<>>]
    ELSE IF JsonLoadsRaises(st.doc) THEN [raised |-> FALSE, by_name |-> <<>>]
    ELSE IF ItemsRaises(st.doc) THEN [raised |-> TRUE, by_name |-> <<>>]
    ELSE ParseCompanies(st.doc.companies, 1, [raised |-> FALSE, by_name |-> <<>>])

(***************************************************************************)
(* discover_inteliquent_trunk_groups                                       *)
(***************************************************************************)
\* mutant of DiscoverTrunkGroups: the keys in the section's own order
DiscoverTrunkGroups_Unsorted(sec) == DictKeys(sec)

\* for name in sorted(section.keys()): yield Service(item=name)
DiscoverTrunkGroups(sec) == Sorted(DictKeys(sec))

(***************************************************************************)
(* check_inteliquent_trunk_groups                                          *)
(*                                                                         *)
(* What the generator yields is a sequence of Result and Metric records    *)
(* of one shape.  A Result carries its state, its summary (head is the     *)
(* literal or the format string, text the echoed status) and, for a        *)
(* utilization summary, the percentage num/den.  A Metric carries its      *)
(* name and its value num/den.                                             *)
(***************************************************************************)
MkResult(state, head, text, num, den) ==
    [type |-> "Result", state |-> state, head |-> head, text |-> text,
     name |-> "", num |-> num, den |-> den]

MkMetric(name, num, den) ==
    [type |-> "Metric", state |-> "", head |-> "", text |-> <<>>,
     name |-> name, num |-> num, den |-> den]

\* Result(...) of the Checkmk API raises TypeError when details is given
\* and is not a str
ResultRaises(details) == details \notin {"str", "none"}

\* the type of the details argument of the status Result: an f-string in
\* the text branch, a 2-tuple (the comma ending line 121) in the other
StatusDetails(status) == IF IsStr(status) THEN "str" ELSE "tuple"

\* State.OK if norm == "inservice" else State.CRIT
StatusState(status) == IF NormalizeStatus(status.s) = InService THEN "OK" ELSE "CRIT"

\* --- Status evaluation ---
StatusPart(data) ==
    LET status == data.status
    IN IF ResultRaises(StatusDetails(status)) THEN [out |-> <<>>, raised |-> TRUE]
       ELSE IF IsStr(status)
            THEN [out |-> <<MkResult(StatusState(status), "Status: ", status.s, 0, 1)>>,
                  raised |-> FALSE]
            ELSE [out |-> <<MkResult("UNKNOWN", "Status: missing", <<>>, 0, 1)>>,
                  raised |-> FALSE]

\* util = data.get("utilization") or {}
UtilOrEmpty(u) == IF Truthy(u) THEN u ELSE UtilEmptyDict

\* util.get raises AttributeError: util is no mapping
UtilGetRaises(util) == util.k # "dict"

RECURSIVE DigitsValue(_, _)
DigitsValue(t, acc) ==
    IF t = <<>> THEN acc ELSE DigitsValue(Tail(t), 10 * acc + (Head(t) - 48))

IsDigits(t) == Len(t) > 0 /\ \A i \in 1..Len(t) : t[i] >= 48 /\ t[i] <= 57

\* float(v): numbers and bools convert, a str converts when it is a number
\* literal (decimal digits here), anything else raises
FloatRaises(v) == ~(IsNumber(v) \/ (IsStr(v) /\ IsDigits(v.s)))

FloatOf(v) == IF IsStr(v) THEN DigitsValue(v.s, 0) ELSE v.n

\* pct = 100.0 * used / capf if capf else 0.0, as the fraction num/den
Pct(used, capf) ==
    IF capf # 0 THEN [num |-> 100 * used, den |-> capf] ELSE [num |-> 0, den |-> 1]

\* pct >= limit
PctGE(pct, limit) ==
    IF pct.den > 0 THEN pct.num >= limit * pct.den ELSE pct.num <= limit * pct.den

CritPct == 90
WarnPct == 80

UtilState(pct) ==
    IF PctGE(pct, CritPct) THEN "CRIT"
    ELSE IF PctGE(pct, WarnPct) THEN "WARN"
    ELSE "OK"

UtilSummary(state) ==
    IF state = "OK" THEN "Utilization: {pct:.1f}%"
    ELSE "Utilization: {pct:.1f}% ({used:.0f}/{capf:.0f})"

\* if isinstance(v, (int, float)): yield Metric(name, float(v))
MetricIfNumber(name, v) == IF IsNumber(v) THEN <<MkMetric(name, v.n, 1)>> ELSE <<>>

\* any(v is None for v in (in_calls, out_calls, capacity)) or not capacity
UtilMissing(in_calls, out_calls, capacity) ==
    IsNone(in_calls) \/ IsNone(out_calls) \/ IsNone(capacity) \/ ~Truthy(capacity)

\* the metric yielded after the utilization Result
ActiveSessions(data) == MetricIfNumber("active_sessions", data.activeSessionCount)

\* --- Utilization evaluation & metrics ---
UtilPart(data) ==
    LET util == UtilOrEmpty(data.utilization)
        in_calls == util.inCalls
        out_calls == util.outCalls
        capacity == util.capacity
        metrics == MetricIfNumber("inCalls", in_calls)
                   \o MetricIfNumber("outCalls", out_calls)
                   \o MetricIfNumber("capacity", capacity)
    IN IF UtilGetRaises(util) THEN [out |-> <<>>, raised |-> TRUE]
       ELSE IF UtilMissing(in_calls, out_calls, capacity)
       THEN [out |-> metrics \o <<MkResult("UNKNOWN", "Utilization: missing", <<>>, 0, 1)>>,
             raised |-> FALSE]
       ELSE IF FloatRaises(in_calls) \/ FloatRaises(out_calls) \/ FloatRaises(capacity)
       THEN [out |-> metrics
                     \o <<MkResult("UNKNOWN", "Utilization: invalid values", <<>>, 0, 1)>>,
             raised |-> FALSE]
       ELSE LET used == FloatOf(in_calls) + FloatOf(out_calls)
                capf == FloatOf(capacity)
                pct == Pct(used, capf)
                u_state == UtilState(pct)
            IN [out |-> metrics
                        \o <<MkMetric("utilization_pct", pct.num, pct.den),
                             MkResult(u_state, UtilSummary(u_state), <<>>, pct.num, pct.den)>>
                        \o ActiveSessions(data),
                raised |-> FALSE]

\* if not data: the item is no key of the section (a stored record is
\* never an empty mapping: parse always sets its company)
NoData(itm, sec) == ~DictHas(sec, itm)

\* mutant of CheckTrunkGroups: no return after "No data for item", so the
\* evaluation goes on to data.get on None
CheckTrunkGroups_NoReturn(itm, sec) ==
    IF NoData(itm, sec)
    THEN [out |-> <<MkResult("UNKNOWN", "No data for item", <<>>, 0, 1)>>, raised |-> TRUE]
    ELSE LET data == DictGet(sec, itm)
             st == StatusPart(data)
         IN IF st.raised THEN st
            ELSE LET ut == UtilPart(data)
                 IN [out |-> st.out \o ut.out, raised |-> ut.raised]

CheckTrunkGroups(itm, sec) ==
    IF NoData(itm, sec)
    THEN [out |-> <<MkResult("UNKNOWN", "No data for item", <<>>, 0, 1)>>, raised |-> FALSE]
    ELSE LET data == DictGet(sec, itm)
             st == StatusPart(data)
         IN IF st.raised THEN st
            ELSE LET ut == UtilPart(data)
                 IN [out |-> st.out \o ut.out, raised |-> ut.raised]

(***************************************************************************)
(* _commands_from_params (server side) and the agent's --account option    *)
(***************************************************************************)
\* a command-line argument: a str, or None
ArgStr(t) == [none |-> FALSE, s |-> t]
ArgNone == [none |-> TRUE, s |-> ""]

\* acct.get(key) on an account entry of the rule form (api_key, api_secret, label)
AcctGet(acct, key) == IF key \in DOMAIN acct THEN ArgStr(acct[key]) ELSE ArgNone

\* args += ["--account", company, api_key, api_secret]
AccountGroup(acct) ==
    LET company == AcctGet(acct, "company")
        api_key == AcctGet(acct, "api_key")
        api_secret == AcctGet(acct, "api_secret")
    IN <<ArgStr("--account"), company, api_key, api_secret>>

RECURSIVE AccountGroups(_)
AccountGroups(accts) ==
    IF accts = <<>> THEN <<>> ELSE AccountGroup(Head(accts)) \o AccountGroups(Tail(accts))

CommandsFromParams(p) ==
    (IF p.debug THEN <<ArgStr("--debug")>> ELSE <<>>) \o AccountGroups(p.accounts)

\* argparse: --account nargs=3 action='append', metavar (API_KEY, API_SECRET, LABEL);
\* the three arguments after each --account bind in that order
RECURSIVE ParseAccounts(_)
ParseAccounts(argv) ==
    IF argv = <<>> THEN <<>>
    ELSE IF Head(argv) = ArgStr("--account") /\ Len(argv) >= 4
    THEN <<[api_key |-> argv[2], api_secret |-> argv[3], label |-> argv[4]]>>
         \o ParseAccounts(SubSeq(argv, 5, Len(argv)))
    ELSE ParseAccounts(Tail(argv))

(***************************************************************************)
(* Sampled inputs                                                          *)
(***************************************************************************)
\* "a", "ab", "B": display names; "B" < "a" < "ab" by code point
NameSamples == {<<97>>, <<97, 98>>, <<66>>}

\* "A", "B": company keys of the payload
CompanyKeys == {<<65>>, <<66>>}

\* "In Service", "inservice", " IN   SERVICE ", "Out of Service", "Maintenance",
\* "In-Service", ""
StatusTexts ==
    {<<73, 110, 32, 83, 101, 114, 118, 105, 99, 101>>,
     <<105, 110, 115, 101, 114, 118, 105, 99, 101>>,
     <<32, 73, 78, 32, 32, 32, 83, 69, 82, 86, 73, 67, 69, 32>>,
     <<79, 117, 116, 32, 111, 102, 32, 83, 101, 114, 118, 105, 99, 101>>,
     <<77, 97, 105, 110, 116, 101, 110, 97, 110, 99, 101>>,
     <<73, 110, 45, 83, 101, 114, 118, 105, 99, 101>>,
     <<>>}

StatusSamples == {Absent, Null, Num(1), List(0)} \cup {Str(t) : t \in StatusTexts}

\* str samples of a utilization field: "x", "4", "10", ""
InSamples == {Absent, Num(0), Num(4), Num(5), Str(<<120>>), Str(<<52>>)}
OutSamples == {Absent, Null, Num(4), Num(5), List(1)}
CapSamples ==
    {Absent, Num(0), Num(10), Num(11), Num(-10), Bool(TRUE), Str(<<120>>),
     Str(<<49, 48>>), Str(<<>>)}

UtilSamples ==
    {UtilDict(i, o, c) : i \in InSamples, o \in OutSamples, c \in CapSamples}
    \cup {UtilEmptyDict}
    \cup {UtilOther(v) : v \in {Absent, Null, Num(0), Num(5), Str(<<120>>), List(0), List(1)}}

ActiveSamples == {Absent, Num(5), Str(<<53>>)}

\* second-level values that vary the name, the record and the shape
ShapeTrunks ==
    {TrunkDict(Fields(Str(nm), Absent, Absent, UtilOther(Absent), Absent)) :
        nm \in NameSamples}
    \cup {TrunkDict(Fields(Str(<<97>>), Absent, Str(<<>>), UtilOther(Absent), Absent)),
          TrunkDict(Fields(Str(<<97>>), Str(<<90>>), Absent, UtilOther(Absent), Absent))}
    \cup {TrunkDict(Fields(nm, Absent, Absent, UtilOther(Absent), Absent)) :
            nm \in {Absent, Num(7), Str(<<>>), Str(<<32>>)}}
    \cup {TrunkOther("null", 0), TrunkOther("str", 1), TrunkOther("list", 0)}

\* second-level values that vary what the check reads
FieldTrunks ==
    {TrunkDict(Fields(Str(<<97>>), Absent, st, ut, ac)) :
        st \in StatusSamples, ut \in UtilSamples, ac \in ActiveSamples}

Company(key, isdict, trunks) == [key |-> key, isdict |-> isdict, trunks |-> trunks]

\* company values holding exactly m trunks / at most m trunks
CompaniesOfLen(key, m, samples) ==
    {Company(key, TRUE, t) : t \in [1..m -> samples]}
    \cup (IF m = 0 THEN {Company(key, FALSE, <<>>)} ELSE {})

CompaniesUpTo(key, m, samples) == UNION {CompaniesOfLen(key, j, samples) : j \in 0..m}

Doc(kind, companies) == [kind |-> kind, companies |-> companies]

\* mappings of at most two companies and at most MaxTrunks trunks in all
ShapeDocs ==
    {Doc("dict", <<>>)}
    \cup UNION {{Doc("dict", <<c>>) : c \in CompaniesUpTo(k, MaxTrunks, ShapeTrunks)} :
                    k \in CompanyKeys}
    \cup UNION {{Doc("dict", <<c1, c2>>) :
                    c1 \in CompaniesOfLen(kk[1], m, ShapeTrunks),
                    c2 \in CompaniesUpTo(kk[2], MaxTrunks - m, ShapeTrunks)} :
                    kk \in {p \in CompanyKeys \X CompanyKeys : p[1] # p[2]},
                    m \in 0..MaxTrunks}

FieldDocs == {Doc("dict", <<Company(<<65>>, TRUE, <<t>>)>>) : t \in FieldTrunks}

OtherDocs == {Doc(kd, <<>>) : kd \in {"empty", "notjson", "scalar", "list"}}

StringTables ==
    {[rows |-> 0, doc |-> Doc("empty", <<>>)]}
    \cup {[rows |-> 1, doc |-> d] : d \in ShapeDocs \cup FieldDocs \cup OtherDocs}

\* "a", "ab" and a name no payload holds ("z")
ItemSamples == {<<97>>, <<97, 98>>, <<122>>}

AccountSamples ==
    [api_key : {"k1", "k2"}, api_secret : {"s1", "s2"}, label : {"L1", "L2"}]

ParamSamples ==
    {[debug |-> d, accounts |-> a] :
        d \in BOOLEAN, a \in UNION {[1..m -> AccountSamples] : m \in 0..MaxAccounts}}

NoParams == [debug |-> FALSE, accounts |-> <<>>]
NoTable == [rows |-> 0, doc |-> Doc("empty", <<>>)]

(***************************************************************************)
(* The state machine                                                       *)
(***************************************************************************)
\* the check plugin is handed a section's raw string table
InitCheckPlugin ==
    /\ pc = "raw"
    /\ string_table \in StringTables
    /\ params = NoParams

\* the server-side call is handed a rule's parameters
InitSpecialAgent ==
    /\ pc = "rule"
    /\ string_table = NoTable
    /\ params \in ParamSamples

Init ==
    /\ (InitCheckPlugin \/ InitSpecialAgent)
    /\ section = <<>>
    /\ parse_raised = FALSE
    /\ services = <<>>
    /\ item = <<>>
    /\ results = <<>>
    /\ check_raised = FALSE
    /\ args = <<>>
    /\ accounts = <<>>

Parse ==
    /\ pc = "raw"
    /\ LET r == ParseTrunkGroups(string_table)
       IN /\ parse_raised' = r.raised
          /\ section' = IF r.raised THEN <<>> ELSE r.by_name
          /\ pc' = IF r.raised THEN "parse_raised" ELSE "parsed"
    /\ UNCHANGED <<string_table, services, item, results, check_raised, params, args,
                   accounts>>

Discover ==
    /\ pc = "parsed"
    /\ services' = DiscoverTrunkGroups(section)
    /\ pc' = "discovered"
    /\ UNCHANGED <<string_table, section, parse_raised, item, results, check_raised,
                   params, args, accounts>>

Check(itm) ==
    /\ pc = "parsed"
    /\ LET r == CheckTrunkGroups(itm, section)
       IN /\ results' = r.out
          /\ check_raised' = r.raised
    /\ item' = itm
    /\ pc' = "checked"
    /\ UNCHANGED <<string_table, section, parse_raised, services, params, args, accounts>>

BuildCommand ==
    /\ pc = "rule"
    /\ args' = CommandsFromParams(params)
    /\ pc' = "command"
    /\ UNCHANGED <<string_table, section, parse_raised, services, item, results,
                   check_raised, params, accounts>>

AgentMain ==
    /\ pc = "command"
    /\ accounts' = ParseAccounts(args)
    /\ pc' = "agent"
    /\ UNCHANGED <<string_table, section, parse_raised, services, item, results,
                   check_raised, params, args>>

Next ==
    \/ Parse
    \/ Discover
    \/ \E itm \in ItemSamples : Check(itm)
    \/ BuildCommand
    \/ AgentMain

Spec == Init /\ [][Next]_vars

(***************************************************************************)
(* Properties                                                              *)
(***************************************************************************)
\* the payload the section was parsed from
Payload == string_table.doc

\* parse has returned a section (and it is still the state's section)
HasSection == pc \in {"parsed", "discovered", "checked"}

\* a two-level payload: company -> trunk-id -> record, every value a mapping
TwoLevel(doc) ==
    /\ doc.kind = "dict"
    /\ \A c \in 1..Len(doc.companies) :
          /\ doc.companies[c].isdict
          /\ \A t \in 1..Len(doc.companies[c].trunks) :
                doc.companies[c].trunks[t].kind = "dict"

\* the records of a payload in iteration order, each with its company key
RECURSIVE Flatten(_)
Flatten(companies) ==
    IF companies = <<>> THEN <<>>
    ELSE [t \in 1..Len(Head(companies).trunks) |->
             [company |-> Head(companies).key, f |-> Head(companies).trunks[t].f]]
         \o Flatten(Tail(companies))

\* a customerTrunkGroupName that is text with a character that is no white space
ValidName(v) == v.k = "str" /\ \E i \in 1..Len(v.s) : v.s[i] \notin {9, 10, 11, 12, 13, 32}

\* the entries of the section stored under a name
EntriesOf(nm) == {e \in 1..Len(section) : section[e].key = nm}

\* the check ran on an item that is a key of the section
CheckedPresent == pc = "checked" /\ EntriesOf(item) # {}

\* the record the check ran on
Data == section[CHOOSE e \in 1..Len(section) : section[e].key = item].val

\* the Results among what the check yielded, in order
Verdicts == SelectSeq(results, LAMBDA r : r.type = "Result")

UtilHeads ==
    {"Utilization: missing", "Utilization: invalid values", "Utilization: {pct:.1f}%",
     "Utilization: {pct:.1f}% ({used:.0f}/{capf:.0f})"}

UtilVerdicts == SelectSeq(results, LAMBDA r : r.type = "Result" /\ r.head \in UtilHeads)

MetricsNamed(nm) == {i \in 1..Len(results) : results[i].type = "Metric" /\ results[i].name = nm}

\* a < b for two texts, by the first position where they differ
StrLess(a, b) ==
    \E k \in 1..Len(b) :
        /\ \A j \in 1..(k - 1) : j <= Len(a) /\ a[j] = b[j]
        /\ (k > Len(a) \/ (k <= Len(a) /\ a[k] < b[k]))

\* C1: parse never raises, whatever the raw input, and returns an empty
\* Snapshot whenever the text is empty or cannot be parsed.
C1_ParseNeverRaises ==
    /\ ~parse_raised
    /\ (HasSection /\ (string_table.rows = 0 \/ Payload.kind \in {"empty", "notjson"}))
          => section = <<>>

\* C2: for an item that is no key of the Snapshot the check yields exactly
\* one result, UNKNOWN "No data for item", and nothing after it.
C2_UnknownItem ==
    (pc = "checked" /\ \A e \in 1..Len(section) : section[e].key # item)
        => /\ ~check_raised
           /\ Len(results) = 1
           /\ results[1].type = "Result"
           /\ results[1].state = "UNKNOWN"
           /\ results[1].head = "No data for item"

C2_Witness ==
    /\ pc = "checked"
    /\ Len(section) >= 1
    /\ \A e \in 1..Len(section) : section[e].key # item
    /\ Len(results) = 1

\* C3: the status verdict of a record is UNKNOWN "Status: missing" when the
\* status is absent or no text; otherwise OK exactly when the text,
\* lower-cased with white space removed, is "inservice", else CRITICAL,
\* with the original text echoed in the message.
C3_StatusVerdict ==
    CheckedPresent =>
        /\ Len(Verdicts) >= 1
        /\ IF Data.status.k = "str"
           THEN /\ Verdicts[1].head = "Status: "
                /\ Verdicts[1].text = Data.status.s
                /\ Verdicts[1].state =
                      IF NormalizeStatus(Data.status.s) = InService THEN "OK" ELSE "CRIT"
           ELSE /\ Verdicts[1].head = "Status: missing"
                /\ Verdicts[1].state = "UNKNOWN"

\* the utilization fields the record holds ({} when the value is absent)
UtilFields == IF Data.utilization.k = "dict" THEN Data.utilization ELSE UtilEmptyDict

\* inCalls, outCalls and capacity are each absent or a number
UtilInScope ==
    /\ Data.utilization.k \in {"dict", "absent", "null"}
    /\ \A v \in {UtilFields.inCalls, UtilFields.outCalls, UtilFields.capacity} :
          v.k \in {"absent", "null", "num"}

\* the reference algorithm of the utilization verdict
UtilReference ==
    LET i == UtilFields.inCalls
        o == UtilFields.outCalls
        c == UtilFields.capacity
        missing == i.k # "num" \/ o.k # "num" \/ c.k # "num" \/ c.n = 0
        used == i.n + o.n
        AtLeast(limit) == IF c.n > 0 THEN 100 * used >= limit * c.n
                          ELSE 100 * used <= limit * c.n
    IN /\ Len(UtilVerdicts) = 1
       /\ IF missing
          THEN /\ UtilVerdicts[1].state = "UNKNOWN"
               /\ UtilVerdicts[1].head = "Utilization: missing"
               /\ MetricsNamed("utilization_pct") = {}
          ELSE /\ Cardinality(MetricsNamed("utilization_pct")) = 1
               /\ \A m \in MetricsNamed("utilization_pct") :
                     results[m].num * c.n = 100 * used * results[m].den
               /\ UtilVerdicts[1].state =
                     IF AtLeast(90) THEN "CRIT" ELSE IF AtLeast(80) THEN "WARN" ELSE "OK"

\* C4: for every record whose inCalls, outCalls and capacity are each absent
\* or a number, the utilization verdict is the reference algorithm's:
\* UNKNOWN "Utilization: missing" and no utilization_pct when one is absent
\* or capacity is zero; else utilization_pct = 100*(inCalls+outCalls)/capacity
\* with CRITICAL at pct >= 90, WARNING at 80 <= pct < 90, OK below 80.
C4_UtilizationVerdict == (CheckedPresent /\ UtilInScope) => UtilReference

\* the same verdict for the records whose status is text: the status Result
\* is built and the utilization evaluation is reached
UtilizationVerdictWhenStatusIsText ==
    (CheckedPresent /\ UtilInScope /\ Data.status.k = "str") => UtilReference

UtilizationBoundaryReached ==
    /\ CheckedPresent /\ UtilInScope /\ Data.status.k = "str"
    /\ UtilFields.capacity = Num(10)
    /\ UtilFields.inCalls = Num(4) /\ UtilFields.outCalls = Num(4)
    /\ Len(UtilVerdicts) = 1 /\ UtilVerdicts[1].state = "WARN"

\* C5: the check emits one observation for each of inCalls, outCalls,
\* capacity and activeSessionCount that is present and numeric, whatever the
\* utilization verdict is.  Stated for the records whose status is text and
\* whose utilization is a mapping or absent.
C5_ObservationsAlways ==
    (CheckedPresent /\ Data.status.k = "str"
        /\ Data.utilization.k \in {"dict", "absent", "null"})
    => /\ UtilFields.inCalls.k = "num" => Cardinality(MetricsNamed("inCalls")) = 1
       /\ UtilFields.outCalls.k = "num" => Cardinality(MetricsNamed("outCalls")) = 1
       /\ UtilFields.capacity.k = "num" => Cardinality(MetricsNamed("capacity")) = 1
       /\ Data.activeSessionCount.k = "num"
             => Cardinality(MetricsNamed("active_sessions")) = 1

\* the three utilization readings alone are emitted whatever the verdict
UtilizationReadingsAlways ==
    (CheckedPresent /\ Data.status.k = "str"
        /\ Data.utilization.k \in {"dict", "absent", "null"})
    => /\ UtilFields.inCalls.k = "num" => Cardinality(MetricsNamed("inCalls")) = 1
       /\ UtilFields.outCalls.k = "num" => Cardinality(MetricsNamed("outCalls")) = 1
       /\ UtilFields.capacity.k = "num" => Cardinality(MetricsNamed("capacity")) = 1

\* C6: when several records of a two-level payload carry the same display
\* name, the Snapshot holds exactly one entry for the name, the last such
\* record in iteration order with that record's company; no error is raised.
C6_LastWriterWins ==
    (pc # "raw" /\ string_table.rows = 1 /\ TwoLevel(Payload))
    => /\ ~parse_raised
       /\ LET flat == Flatten(Payload.companies)
          IN \A i \in 1..Len(flat) :
                (/\ ValidName(flat[i].f.customerTrunkGroupName)
                 /\ \A j \in (i + 1)..Len(flat) :
                       flat[j].f.customerTrunkGroupName # flat[i].f.customerTrunkGroupName)
                => /\ Cardinality(EntriesOf(flat[i].f.customerTrunkGroupName.s)) = 1
                   /\ \A e \in EntriesOf(flat[i].f.customerTrunkGroupName.s) :
                         section[e].val =
                            [flat[i].f EXCEPT !.company = Str(flat[i].company)]

C6_Witness ==
    /\ pc = "parsed" /\ TwoLevel(Payload)
    /\ LET flat == Flatten(Payload.companies)
       IN /\ Len(flat) = 2
          /\ flat[1].f.customerTrunkGroupName = flat[2].f.customerTrunkGroupName
          /\ flat[1].company # flat[2].company
          /\ flat[1].f.status # flat[2].f.status
          /\ Len(section) = 1
          /\ section[1].val.company = Str(flat[2].company)
          /\ section[1].val.status = flat[2].f.status

\* C7: in a two-level payload a record is left out, without error, exactly
\* when its customerTrunkGroupName is missing, no string or blank; every
\* entry is keyed by its own name and its company is the top-level key it
\* appeared under, whatever company field the record had.
C7_DroppedAndTagged ==
    (pc # "raw" /\ string_table.rows = 1 /\ TwoLevel(Payload))
    => /\ ~parse_raised
       /\ LET flat == Flatten(Payload.companies)
          IN /\ {section[e].key : e \in 1..Len(section)}
                  = {flat[i].f.customerTrunkGroupName.s :
                        i \in {j \in 1..Len(flat) :
                                  ValidName(flat[j].f.customerTrunkGroupName)}}
             /\ \A e \in 1..Len(section) :
                   /\ section[e].val.customerTrunkGroupName = Str(section[e].key)
                   /\ \E i \in 1..Len(flat) :
                         /\ flat[i].f.customerTrunkGroupName = Str(section[e].key)
                         /\ section[e].val.company = Str(flat[i].company)
                         /\ section[e].val =
                               [flat[i].f EXCEPT !.company = Str(flat[i].company)]

C7_Witness ==
    /\ pc = "parsed" /\ TwoLevel(Payload)
    /\ LET flat == Flatten(Payload.companies)
       IN /\ Len(flat) = 2
          /\ flat[1].f.customerTrunkGroupName = Str(<<32>>)
          /\ flat[2].f.company = Str(<<90>>)
          /\ Len(section) = 1
          /\ section[1].val.company = Str(flat[2].company)
          /\ section[1].val.company # Str(<<90>>)

\* C8: discovery yields one service per Snapshot key, none missing or
\* repeated, in ascending lexicographic order, whatever the Snapshot's
\* iteration order; an empty Snapshot yields none.
C8_DiscoverySorted ==
    pc = "discovered"
    => /\ Len(services) = Len(section)
       /\ {services[i] : i \in 1..Len(services)} = {section[e].key : e \in 1..Len(section)}
       /\ \A i \in 1..(Len(services) - 1) : StrLess(services[i], services[i + 1])

C8_Witness ==
    /\ pc = "discovered"
    /\ Len(section) >= 2
    /\ services # [e \in 1..Len(section) |-> section[e].key]

\* C9: for an item of the Snapshot the check completes without raising and
\* yields exactly one status verdict followed by exactly one utilization
\* verdict, whatever the presence and types of the record's fields.
C9_BothVerdictsAlways ==
    CheckedPresent
    => /\ ~check_raised
       /\ Len(Verdicts) = 2
       /\ Verdicts[1].head \in {"Status: ", "Status: missing"}
       /\ Verdicts[2].head \in UtilHeads

\* C10: the command holds, for every configured account in order, one group
\* "--account API_KEY API_SECRET LABEL" with that entry's key, secret and
\* label, which the agent's --account option binds in that order.
C10_AccountGroups ==
    /\ pc \in {"command", "agent"}
          => LET groups == IF params.debug THEN Tail(args) ELSE args
             IN /\ Len(groups) = 4 * Len(params.accounts)
                /\ \A a \in 1..Len(params.accounts) :
                      SubSeq(groups, 4 * a - 3, 4 * a)
                         = <<ArgStr("--account"), ArgStr(params.accounts[a].api_key),
                             ArgStr(params.accounts[a].api_secret),
                             ArgStr(params.accounts[a].label)>>
    /\ pc = "agent"
          => /\ Len(accounts) = Len(params.accounts)
             /\ \A a \in 1..Len(accounts) :
                   /\ accounts[a].api_key = ArgStr(params.accounts[a].api_key)
                   /\ accounts[a].api_secret = ArgStr(params.accounts[a].api_secret)
                   /\ accounts[a].label = ArgStr(params.accounts[a].label)

============================================================================
